---- MODULE Spec2Model ----
(***************************************************************************)
(* Event-Calender: a batch pipeline that fetches outlet sale announcements *)
(* (data_fetcher.py / fetchers.py, or another_suggestion.py with a         *)
(* rendered browser page), normalises them to {name, start_date, end_date} *)
(* rows (llm_parser.py, or the heuristic _parse_period_to_dates) and emits *)
(* an iCalendar file (ical_generator.py, generate_ical.py).                *)
(*                                                                         *)
(* Text is modelled as a sequence of characters, each character a string.  *)
(* Non-ASCII characters of the source are written by name:                 *)
(*   "nen" = U+5E74, "gatsu" = U+6708, "nichi" = U+65E5 (year, month, day) *)
(*   "wavedash" = U+301C, "fwtilde" = U+FF5E, "chouon" = U+30FC            *)
(*   "kanji" = any other ideograph.                                        *)
(***************************************************************************)
EXTENDS Integers, Sequences, FiniteSets, TLC

\* ------------------------------------------------------------------ bounds
\* Most targets in the registry file.
MaxTargets == 2
\* Most raw candidates one attempt harvests from the intercepted JSON payloads.
MaxJsonCands == 1
\* Most raw candidates one attempt harvests from the DOM sweep.
MaxDomCands == 2
\* Most items in the "news" list of one API response.
MaxNews == 2
\* Most cards the card selector matches in one page.
MaxCards == 2
\* Most items in the "events" list of one LLM reply, and most rows of a sales
\* file handed to the calendar emitter.
MaxEvents == 2

VARIABLES
    prog,            \* which entry point runs: "period", "browser", ...
    pc,              \* position of that entry point
    period,          \* _parse_period_to_dates: its argument
    parsed,          \* _parse_period_to_dates: its result
    targetsFile,     \* the registry file: NoFile, or the list it holds
    targets,         \* fetch_events_from_api: targets
    tIdx,            \* index of the target the loop is at (1-based)
    attempt,         \* another_suggestion: attempt of the retry loop (0, 1)
    collected,       \* another_suggestion: collected (one per target)
    outlet_text,     \* another_suggestion: outlet_text (one per target)
    all_events_text, \* fetch_events_from_api: all_events_text
    sales_rows,      \* another_suggestion: sales_rows
    row_src,         \* history: for each sales row, the candidate it came from
    tried,           \* history: per target, for each attempt made, whether it raised
    playwright,      \* another_suggestion: browsers and contexts opened, which are open, pages open
    salesFile,       \* the normalized sales file: NoFile, or the rows it holds
    gets,            \* history: each session.get call, its target and what it answered
    bulletin,        \* what fetch_events_from_api returned (NotReturned before)
    exc,             \* the exception that left the running function ("" for none)
    event_text,      \* the text handed to parse_events_with_llm
    llmEnv,          \* whether openai is importable, and OPENAI_API_KEY
    credRead,        \* history: os.getenv("OPENAI_API_KEY") was called
    remoteCalls,     \* history: number of chat.completions.create calls
    reply,           \* response.choices[0].message.content
    events,          \* what parse_events_with_llm returned
    exit_status,     \* exit status of main.py (Running before it ends)
    icalCalls,       \* history: number of create_ical_from_json calls
    icalFile,        \* the calendar file: NoFile, or the calendar it holds
    outDir,          \* directory part of the calendar path: "none", "absent", "present"
    emitter          \* which file's create_ical_from_json runs

periodVars == <<period, parsed>>
fetchVars == <<targetsFile, targets, tIdx, all_events_text, bulletin, gets>>
browserVars == <<attempt, collected, outlet_text, sales_rows, row_src, tried, playwright>>
llmVars == <<event_text, llmEnv, credRead, remoteCalls, reply, events>>
icalVars == <<icalCalls, icalFile, outDir, emitter>>
mainVars == <<exc, llmVars, exit_status, icalVars, gets>>
vars == <<prog, pc, period, parsed, targetsFile, targets, tIdx, attempt, collected,
          outlet_text, all_events_text, sales_rows, row_src, tried, playwright, salesFile, bulletin, gets,
          exc, event_text, llmEnv, credRead, remoteCalls, reply, events, exit_status,
          icalCalls, icalFile, outDir, emitter>>

\* ------------------------------------------------------------------ text
Digits == <<"0", "1", "2", "3", "4", "5", "6", "7", "8", "9">>
DigitChars == {Digits[i] : i \in 1..10}
DigitVal(c) == (CHOOSE i \in 1..10 : Digits[i] = c) - 1
\* Python's str.isspace() characters that occur in the modelled texts.
Whitespace == {" ", "\n"}
Alphabet == DigitChars \cup Whitespace \cup
    {".", "/", "-", "~", "t", "o", "T", "O", "N", "n", "e", "x",
     "nen", "gatsu", "nichi", "wavedash", "fwtilde", "chouon", "kanji"}

RECURSIVE LStrip(_)
LStrip(s) == IF s # <<>> /\ Head(s) \in Whitespace THEN LStrip(Tail(s)) ELSE s
RECURSIVE RStrip(_)
RStrip(s) ==
    IF s # <<>> /\ s[Len(s)] \in Whitespace THEN RStrip(SubSeq(s, 1, Len(s) - 1)) ELSE s
\* str.strip()
Strip(s) == RStrip(LStrip(s))

\* int(text) of a run of decimal digits.
RECURSIVE ToInt(_)
ToInt(s) == IF s = <<>> THEN 0 ELSE 10 * ToInt(SubSeq(s, 1, Len(s) - 1)) + DigitVal(s[Len(s)])
\* str(n) of a natural number.
RECURSIVE IntToStr(_)
IntToStr(n) == IF n < 10 THEN <<Digits[n + 1]>> ELSE IntToStr(n \div 10) \o <<Digits[(n % 10) + 1]>>
\* f"{n:0{w}d}": zero-padded to at least w characters.
RECURSIVE ZeroPad(_, _)
ZeroPad(s, w) == IF Len(s) >= w THEN s ELSE ZeroPad(<<"0">> \o s, w)
Fmt(n, w) == ZeroPad(IntToStr(n), w)

\* Lexicographic order of two texts whose characters are digits or "-",
\* as Python compares str ("-" sorts before every digit).
CharRank(c) == IF c \in DigitChars THEN DigitVal(c) + 1 ELSE 0
RECURSIVE StrLeq(_, _)
StrLeq(a, b) ==
    IF a = <<>> THEN TRUE
    ELSE IF b = <<>> THEN FALSE
    ELSE IF CharRank(Head(a)) # CharRank(Head(b)) THEN CharRank(Head(a)) < CharRank(Head(b))
    ELSE StrLeq(Tail(a), Tail(b))

\* ------------------------------------------------------------------ re
\* A pattern is a sequence of items [cls, min, max, greedy]: cls{min,max},
\* max = -1 for no upper limit. re.search tries every start from the left and,
\* at a start, backtracks through the counts of each item in priority order:
\* longest first for a greedy item, shortest first for a lazy one.
Item(cls, lo, hi, greedy) == [cls |-> cls, min |-> lo, max |-> hi, greedy |-> greedy]
One(cls) == Item(cls, 1, 1, TRUE)
NoMatch == <<-1>>

\* How many characters from pos on are in cls, at most cap (cap = -1: no cap).
RECURSIVE RunLen(_, _, _, _)
RunLen(s, pos, cls, cap) ==
    IF cap = 0 \/ pos > Len(s) \/ s[pos] \notin cls THEN 0
    ELSE 1 + RunLen(s, pos + 1, cls, IF cap = -1 THEN -1 ELSE cap - 1)

RECURSIVE MatchAt(_, _, _, _)
RECURSIVE TryCount(_, _, _, _, _, _)
\* The counts each item from the k-th on consumes in the first successful
\* match of re[k..] at pos, or NoMatch.
MatchAt(re, k, s, pos) ==
    IF k > Len(re) THEN <<>>
    ELSE LET avail == RunLen(s, pos, re[k].cls, re[k].max)
         IN  IF avail < re[k].min THEN NoMatch
             ELSE TryCount(re, k, s, pos, IF re[k].greedy THEN avail ELSE re[k].min, avail)
TryCount(re, k, s, pos, n, avail) ==
    LET rest == MatchAt(re, k + 1, s, pos + n)
    IN  IF rest # NoMatch THEN <<n>> \o rest
        ELSE IF re[k].greedy
             THEN IF n = re[k].min THEN NoMatch ELSE TryCount(re, k, s, pos, n - 1, avail)
             ELSE IF n = avail THEN NoMatch ELSE TryCount(re, k, s, pos, n + 1, avail)

\* re.search: [start, counts] of the leftmost match, or NoMatch.
RECURSIVE SearchFrom(_, _, _)
SearchFrom(re, s, i) ==
    IF i > Len(s) + 1 THEN NoMatch
    ELSE LET m == MatchAt(re, 1, s, i)
         IN  IF m # NoMatch THEN <<i>> \o m ELSE SearchFrom(re, s, i + 1)
Search(re, s) == SearchFrom(re, s, 1)

\* Where item k of a match begins, and the text it matched (m.group).
RECURSIVE ItemStart(_, _)
ItemStart(m, k) == IF k = 1 THEN m[1] ELSE ItemStart(m, k - 1) + m[k]
Group(s, m, k) == SubSeq(s, ItemStart(m, k), ItemStart(m, k) + m[k + 1] - 1)

\* ------------------------------------------- _parse_period_to_dates
AnyChar == Alphabet \ {"\n"}
DateSep == {".", "/", "-"}
RangeSep == {"wavedash", "~", "-", "fwtilde", "chouon", "t", "o", "T", "O", " "}
SpaceCls == Whitespace

\* (\d{4})[./-](\d{1,2})[./-](\d{1,2})
IsoDateRe ==
    <<Item(DigitChars, 4, 4, TRUE), One(DateSep), Item(DigitChars, 1, 2, TRUE),
      One(DateSep), Item(DigitChars, 1, 2, TRUE)>>
\* (\d{4})nen\s*(\d{1,2})gatsu\s*(\d{1,2})nichi
JpDateRe ==
    <<Item(DigitChars, 4, 4, TRUE), One({"nen"}), Item(SpaceCls, 0, -1, TRUE),
      Item(DigitChars, 1, 2, TRUE), One({"gatsu"}), Item(SpaceCls, 0, -1, TRUE),
      Item(DigitChars, 1, 2, TRUE), One({"nichi"})>>
\* pattern 1: iso .{0,10} [range separators]{1,10} iso
IsoRangeRe == IsoDateRe \o <<Item(AnyChar, 0, 10, TRUE), Item(RangeSep, 1, 10, TRUE)>> \o IsoDateRe
\* pattern 2: jp .*? jp
JpRangeRe == JpDateRe \o <<Item(AnyChar, 0, -1, FALSE)>> \o JpDateRe

\* Mutant of norm: the groups as matched, without padding.
norm_as_written(y, m, d) == y \o <<"-">> \o m \o <<"-">> \o d
\* norm(y, m, d)
norm(y, m, d) == Fmt(ToInt(y), 4) \o <<"-">> \o Fmt(ToInt(m), 2) \o <<"-">> \o Fmt(ToInt(d), 2)

\* The result: the pair (start, end), or None.
Dates(s, e) == [ok |-> TRUE, s |-> s, e |-> e]
None == [ok |-> FALSE, s |-> <<>>, e |-> <<>>]
parse_period_to_dates(p) ==
    LET m1 == Search(IsoRangeRe, p)
        m2 == Search(JpRangeRe, p)
        m3 == Search(IsoDateRe, p)
        m4 == Search(JpDateRe, p)
    IN  IF m1 # NoMatch
        THEN Dates(norm(Group(p, m1, 1), Group(p, m1, 3), Group(p, m1, 5)),
                   norm(Group(p, m1, 8), Group(p, m1, 10), Group(p, m1, 12)))
        ELSE IF m2 # NoMatch
        THEN Dates(norm(Group(p, m2, 1), Group(p, m2, 4), Group(p, m2, 7)),
                   norm(Group(p, m2, 10), Group(p, m2, 13), Group(p, m2, 16)))
        ELSE IF m3 # NoMatch
        THEN LET s == norm(Group(p, m3, 1), Group(p, m3, 3), Group(p, m3, 5)) IN Dates(s, s)
        ELSE IF m4 # NoMatch
        THEN LET s == norm(Group(p, m4, 1), Group(p, m4, 4), Group(p, m4, 7)) IN Dates(s, s)
        ELSE None

\* ------------------------------------------------- period texts (inputs)
\* A date written as the pages write it.
IsoText(d, sep, pad) ==
    Fmt(d[1], 4) \o <<sep>> \o Fmt(d[2], pad) \o <<sep>> \o Fmt(d[3], pad)
JpText(d) == Fmt(d[1], 4) \o <<"nen">> \o IntToStr(d[2]) \o <<"gatsu">> \o IntToStr(d[3]) \o <<"nichi">>
SampleDates == {<<2025, 9, 1>>, <<2025, 9, 15>>, <<2024, 12, 31>>, <<2025, 13, 45>>}
Glues == {<<" ", "fwtilde", " ">>, <<"-">>, <<" ", "t", "o", " ">>, <<"wavedash">>, <<"kanji">>}
DateTexts(d) == {IsoText(d, sep, pad) : sep \in DateSep, pad \in {1, 2}} \cup {JpText(d)}
RangeTexts == {a \o g \o b : a \in UNION {DateTexts(d) : d \in SampleDates},
                             g \in Glues,
                             b \in UNION {DateTexts(d) : d \in SampleDates}}
SingleTexts == UNION {DateTexts(d) : d \in SampleDates}
JunkTexts == {<<>>, <<"kanji", "kanji">>, <<"2", "0", "2", "5", "nen">>, <<"9", "/", "1">>}
\* One full date followed by a day without its year, after a word.
TrailingTexts == {<<"kanji">> \o t \o <<"fwtilde", "9", "/", "1", "5">> : t \in SingleTexts}
PeriodTexts == RangeTexts \cup SingleTexts \cup TrailingTexts \cup JunkTexts

\* ------------------------------------------------------------ shared state
\* A file: absent, or holding data.
NoFile == [exists |-> FALSE, data |-> <<>>]
File(data) == [exists |-> TRUE, data |-> data]
\* A function's return value: not returned yet, or the value.
NotReturned == [returned |-> FALSE, value |-> <<>>]
Returned(v) == [returned |-> TRUE, value |-> v]
SeqsUpTo(S, n) == UNION {[1..k -> S] : k \in 0..n}

\* The registry holds the first n of these, n <= MaxTargets.
TargetAt(i) == [id |-> i, name |-> i]
Registries == {File([i \in 1..n |-> TargetAt(i)]) : n \in 0..MaxTargets}

IdleFetch ==
    /\ targetsFile = NoFile
    /\ targets = <<>>
    /\ tIdx = 0
    /\ all_events_text = <<>>
    /\ bulletin = NotReturned
    /\ gets = <<>>
\* A process's exit status: still running, or the status it ended with.
Running == [exited |-> FALSE, code |-> 0]
Exited(c) == [exited |-> TRUE, code |-> c]
NoReply == [kind |-> "unset", top |-> "", events |-> [t |-> "absent", items |-> <<>>]]
IdleLLM ==
    /\ event_text = <<>>
    /\ llmEnv = [openai |-> TRUE, key |-> "set"]
    /\ credRead = FALSE
    /\ remoteCalls = 0
    /\ reply = NoReply
    /\ events = NotReturned
\* A calendar: its header properties and its VEVENT components.
Calendar(headers, evs) == [headers |-> headers, events |-> evs]
NoIcal == [exists |-> FALSE, data |-> Calendar(<<>>, <<>>)]
IdleIcal ==
    /\ icalCalls = 0
    /\ icalFile = NoIcal
    /\ outDir = "present"
    /\ emitter = "ical_generator"
IdleMain ==
    /\ exc = ""
    /\ exit_status = Running
    /\ IdleLLM
    /\ IdleIcal
\* Before sync_playwright() is entered: nothing launched, nothing open.
NoPlaywright ==
    [launched |-> 0, contexts |-> 0, browser_open |-> FALSE, context_open |-> FALSE,
     open_pages |-> 0]
IdleBrowser ==
    /\ attempt = 0
    /\ collected = <<>>
    /\ outlet_text = <<>>
    /\ sales_rows = <<>>
    /\ row_src = <<>>
    /\ tried = <<>>
    /\ playwright = NoPlaywright

\* One line of a section: its header, an event line
\* "EVENT: {title}, PERIOD: {period}", or the no-events line.
Line(k, title, p) == [k |-> k, title |-> title, period |-> p]
HeaderLine == Line("header", "", <<>>)
NoEventsLine == Line("none", "", <<>>)
EventLine(title, p) == Line("event", title, p)
\* One element of all_events_text: the event section of a target (its lines
\* joined), or its error section.
Section(t, kind, lines) == [target |-> t, kind |-> kind, lines |-> lines]

\* ------------------------------------ another_suggestion.fetch_events_from_api
Cand(title, p) == [title |-> title, period |-> p]
FwdRange == IsoText(<<2025, 9, 1>>, "-", 2) \o <<" ", "fwtilde", " ">> \o IsoText(<<2025, 9, 15>>, "-", 2)
RevRange == IsoText(<<2025, 9, 15>>, "/", 1) \o <<" ", "fwtilde", " ">> \o IsoText(<<2025, 9, 1>>, "/", 1)
JunkPeriod == <<"kanji", "kanji">>
\* What _extract_events_from_json_payload can yield: title and period are
\* str(...).strip() of the payload's values, either may come out empty.
JsonCands ==
    {Cand("Sale", FwdRange), Cand("Fair", JunkPeriod), Cand("", FwdRange), Cand("Sale", <<>>)}
\* What the DOM sweep can append to results: title and period both non-empty,
\* the period a range or a single date the sweep's own patterns matched.
DomCands == {Cand("Sale", FwdRange), Cand("Fair", RevRange)}
\* _parse_period_to_dates on the periods of the candidates, each computed once.
CandPeriods == {c.period : c \in JsonCands \cup DomCands}
ParsedPeriod == [p \in CandPeriods |-> parse_period_to_dates(p)]

\* _extract_events_from_dom, its closing loop: first occurrence of each
\* (title, period) is kept.
RECURSIVE dom_uniq(_, _)
dom_uniq(results, seen) ==
    IF results = <<>> THEN <<>>
    ELSE LET e == Head(results)
             key == <<e.title, e.period>>
         IN  IF key \notin seen
             THEN <<e>> \o dom_uniq(Tail(results), seen \cup {key})
             ELSE dom_uniq(Tail(results), seen)

\* fetch_events_from_api, "uniq": first occurrence of each (title, period)
\* whose title and period are both non-empty.
RECURSIVE fetch_uniq(_, _)
fetch_uniq(cs, seen) ==
    IF cs = <<>> THEN <<>>
    ELSE LET e == Head(cs)
             key == <<e.title, e.period>>
         IN  IF key \notin seen /\ e.title # "" /\ e.period # <<>>
             THEN <<e>> \o fetch_uniq(Tail(cs), seen \cup {key})
             ELSE fetch_uniq(Tail(cs), seen)

\* Mutant of uniq_lines: the line is appended only when the period parses.
RECURSIVE uniq_lines_parsed_only(_)
uniq_lines_parsed_only(u) ==
    IF u = <<>> THEN <<>>
    ELSE (IF ParsedPeriod[Head(u).period] # None
          THEN <<EventLine(Head(u).title, Head(u).period)>> ELSE <<>>)
         \o uniq_lines_parsed_only(Tail(u))

\* The lines the loop over uniq appends to outlet_text.
RECURSIVE uniq_lines(_)
uniq_lines(u) ==
    IF u = <<>> THEN <<>> ELSE <<EventLine(Head(u).title, Head(u).period)>> \o uniq_lines(Tail(u))
\* The rows the loop over uniq appends to sales_rows: one per candidate whose
\* period parses.
Row(name, s, e) == [name |-> name, start_date |-> s, end_date |-> e]
RECURSIVE uniq_rows(_, _)
uniq_rows(u, center_name) ==
    IF u = <<>> THEN <<>>
    ELSE LET p == ParsedPeriod[Head(u).period]
         IN  (IF p # None THEN <<Row(<<center_name, Head(u).title>>, p.s, p.e)>> ELSE <<>>)
             \o uniq_rows(Tail(u), center_name)
RECURSIVE uniq_srcs(_, _)
uniq_srcs(u, t) ==
    IF u = <<>> THEN <<>>
    ELSE (IF ParsedPeriod[Head(u).period] # None
          THEN <<[target |-> t, title |-> Head(u).title, period |-> Head(u).period]>> ELSE <<>>)
         \o uniq_srcs(Tail(u), t)

BrowserLoadTargets ==
    /\ prog \in {"browser", "session"}
    /\ pc = "load"
    /\ IF targetsFile = NoFile
       THEN /\ bulletin' = Returned(<<>>)
            /\ pc' = "returned"
            /\ UNCHANGED <<targets, tIdx, tried, playwright>>
       ELSE /\ targets' = targetsFile.data
            /\ tried' = [i \in 1..Len(targetsFile.data) |-> <<>>]
            /\ playwright' = [playwright EXCEPT !.launched = @ + 1, !.contexts = @ + 1,
                                                !.browser_open = TRUE, !.context_open = TRUE]
            /\ tIdx' = 1
            /\ pc' = IF targetsFile.data = <<>> THEN "closing" ELSE "attempt"
            /\ UNCHANGED bulletin
    /\ UNCHANGED <<prog, periodVars, mainVars, targetsFile, attempt, collected, outlet_text,
                   all_events_text, sales_rows, row_src, salesFile>>

\* collected and outlet_text as an attempt finds them: the first attempt of a
\* target starts from the fresh values the loop body assigned, the retry from
\* what the first attempt left.
CollIn == IF attempt = 0 THEN <<>> ELSE collected
TextIn == IF attempt = 0 THEN <<HeaderLine>> ELSE outlet_text

\* After the attempt loop of target tIdx: the next target, or the end of the loop.
NextTarget ==
    /\ tIdx' = tIdx + 1
    /\ attempt' = 0
    /\ pc' = IF tIdx < Len(targets) THEN "attempt" ELSE "closing"

\* Mutant of AttemptExcept: the error section is recorded on every failed
\* attempt, not only on the last.
AttemptExcept_every_failure(all) ==
    /\ all_events_text' = Append(all, Section(tIdx, "error", <<>>))
    /\ IF attempt = 0
       THEN /\ attempt' = 1
            /\ pc' = "attempt"
            /\ UNCHANGED tIdx
       ELSE NextTarget

\* The except branch of an attempt: the error section on the last attempt,
\* then the retry or the next target.
AttemptExcept(all) ==
    /\ all_events_text' = IF attempt = 1 THEN Append(all, Section(tIdx, "error", <<>>)) ELSE all
    /\ IF attempt = 0
       THEN /\ attempt' = 1
            /\ pc' = "attempt"
            /\ UNCHANGED tIdx
       ELSE NextTarget

Tried(raises) == [tried EXCEPT ![tIdx] = Append(@, raises)]

\* The pages after an attempt: its page is "closed" (a page.close() call
\* returned, or new_page raised and there is none), or it is "left" open (the
\* handler's page.close() raised too and the exception was passed over).
PageAfter(page) ==
    [playwright EXCEPT !.open_pages = IF page = "left" THEN @ + 1 ELSE @]

\* An attempt that raises before the harvest is processed: new_page, goto or a
\* wait raises (partial empty), or the walk of a payload raises after the
\* candidates of earlier payloads were added to collected.
BrowserAttemptRaises(partial, page) ==
    /\ prog \in {"browser", "session"}
    /\ pc = "attempt"
    /\ tried' = Tried(TRUE)
    /\ playwright' = PageAfter(page)
    /\ collected' = CollIn \o partial
    /\ outlet_text' = TextIn
    /\ AttemptExcept(all_events_text)
    /\ UNCHANGED <<prog, periodVars, mainVars, targetsFile, targets, sales_rows, row_src,
                   salesFile, bulletin>>

\* The harvest of one attempt processed into outlet_text, sales_rows and
\* all_events_text: [collected, outlet_text, sales_rows, row_src, all_events_text].
Harvest(json, dom) ==
    LET coll == CollIn \o json \o dom_uniq(dom, {})
        uniq == fetch_uniq(coll, {})
        text == IF coll = <<>> THEN Append(TextIn, NoEventsLine)
                ELSE TextIn \o uniq_lines(uniq)
    IN  [collected |-> coll,
         outlet_text |-> text,
         sales_rows |-> IF coll = <<>> THEN sales_rows
                        ELSE sales_rows \o uniq_rows(uniq, targets[tIdx].name),
         row_src |-> IF coll = <<>> THEN row_src ELSE row_src \o uniq_srcs(uniq, tIdx),
         all_events_text |-> Append(all_events_text, Section(tIdx, "events", text))]

\* An attempt that runs to its break.
BrowserAttemptSucceeds(json, dom) ==
    /\ prog \in {"browser", "session"}
    /\ pc = "attempt"
    /\ LET h == Harvest(json, dom)
       IN  /\ collected' = h.collected
           /\ outlet_text' = h.outlet_text
           /\ sales_rows' = h.sales_rows
           /\ row_src' = h.row_src
           /\ all_events_text' = h.all_events_text
    /\ tried' = Tried(FALSE)
    /\ NextTarget
    /\ UNCHANGED playwright
    /\ UNCHANGED <<prog, periodVars, mainVars, targetsFile, targets, salesFile, bulletin>>

\* An attempt whose page.close() raises, after the section was appended.
BrowserAttemptCloseRaises(json, dom, page) ==
    /\ prog \in {"browser", "session"}
    /\ pc = "attempt"
    /\ playwright' = PageAfter(page)
    /\ LET h == Harvest(json, dom)
       IN  /\ collected' = h.collected
           /\ outlet_text' = h.outlet_text
           /\ sales_rows' = h.sales_rows
           /\ row_src' = h.row_src
           /\ AttemptExcept(h.all_events_text)
    /\ tried' = Tried(TRUE)
    /\ UNCHANGED <<prog, periodVars, mainVars, targetsFile, targets, salesFile, bulletin>>

\* context.close(); browser.close()
BrowserClose ==
    /\ prog \in {"browser", "session"}
    /\ pc = "closing"
    /\ pc' = "write"
    /\ playwright' = [playwright EXCEPT !.context_open = FALSE, !.browser_open = FALSE]
    /\ UNCHANGED <<prog, periodVars, mainVars, fetchVars, attempt, collected, outlet_text,
                   sales_rows, row_src, tried, salesFile>>

\* context.close() or browser.close() raises: the exception leaves the
\* function; after context.close() raised, browser.close() is not called.
BrowserCloseRaises(which) ==
    /\ prog \in {"browser", "session"}
    /\ pc = "closing"
    /\ pc' = "raised"
    /\ playwright' = [playwright EXCEPT !.context_open = (which = "context")]
    /\ UNCHANGED <<prog, periodVars, mainVars, fetchVars, attempt, collected, outlet_text,
                   sales_rows, row_src, tried, salesFile>>

\* sales.json is written (or the write fails and is only reported), and the
\* joined all_events_text is returned.
BrowserFinish(written) ==
    /\ prog \in {"browser", "session"}
    /\ pc = "write"
    /\ salesFile' = IF written THEN File(sales_rows) ELSE salesFile
    /\ bulletin' = Returned(all_events_text)
    /\ pc' = "returned"
    /\ UNCHANGED <<prog, periodVars, mainVars, targetsFile, targets, tIdx, all_events_text, browserVars>>

InitBrowser ==
    /\ prog = "browser"
    /\ pc = "load"
    /\ period = <<>>
    /\ parsed = None
    /\ targetsFile \in {NoFile} \cup Registries
    /\ targets = <<>>
    /\ tIdx = 0
    /\ all_events_text = <<>>
    /\ bulletin = NotReturned
    /\ gets = <<>>
    /\ IdleBrowser
    /\ IdleMain
    /\ salesFile = NoFile

\* What one attempt harvests from the JSON payloads and from the DOM, and
\* what becomes of its page. The run that follows the pages ("session") draws
\* its harvests from fewer candidates.
JsonHarvests == IF prog = "session" THEN {<<>>} ELSE SeqsUpTo(JsonCands, MaxJsonCands)
DomHarvests ==
    IF prog = "session" THEN {<<>>, <<Cand("Sale", FwdRange)>>}
    ELSE SeqsUpTo(DomCands, MaxDomCands)
PageOutcomes == IF prog = "session" THEN {"closed", "left"} ELSE {"closed"}

NextBrowser ==
    \/ BrowserLoadTargets
    \/ \E partial \in JsonHarvests, page \in PageOutcomes : BrowserAttemptRaises(partial, page)
    \/ \E json \in JsonHarvests, dom \in DomHarvests : BrowserAttemptSucceeds(json, dom)
    \/ \E json \in JsonHarvests, dom \in DomHarvests, page \in PageOutcomes :
          BrowserAttemptCloseRaises(json, dom, page)
    \/ BrowserClose
    \/ \E which \in {"context", "browser"} : BrowserCloseRaises(which)
    \/ \E written \in BOOLEAN : BrowserFinish(written)

SpecBrowser == InitBrowser /\ [][NextBrowser]_vars

\* The same function, followed for its browser, context and pages.
InitSession ==
    /\ prog = "session"
    /\ pc = "load"
    /\ period = <<>>
    /\ parsed = None
    /\ targetsFile \in {NoFile} \cup Registries
    /\ targets = <<>>
    /\ tIdx = 0
    /\ all_events_text = <<>>
    /\ bulletin = NotReturned
    /\ gets = <<>>
    /\ IdleBrowser
    /\ IdleMain
    /\ salesFile = NoFile

SpecSession == InitSession /\ [][NextBrowser]_vars

\* ------------------------------------------------------------ fetchers.py
\* A JSON value at a key of an object: the key absent, null, a string, a number.
Absent == [t |-> "absent", s |-> <<>>, n |-> 0]
Null == [t |-> "null", s |-> <<>>, n |-> 0]
Str(s) == [t |-> "str", s |-> s, n |-> 0]
Num(n) == [t |-> "num", s |-> <<>>, n |-> n]
\* Python truthiness of such a value (x.get(key) or ...).
Truthy(v) == (v.t = "str" /\ v.s # <<>>) \/ (v.t = "num" /\ v.n # 0)

CATEGORY01_NEWS == 10
CATEGORY02_PREMIUM_OUTLETS_NEWS == 200

\* One element of the response's "news": an object with its keys, or another
\* JSON value (t = "other").
NewsItem(c1, c2, title, schedule, p) ==
    [t |-> "dict", category01 |-> c1, category02 |-> c2, title |-> title,
     schedule |-> schedule, period |-> p]
OtherItem == [t |-> "other", category01 |-> 0, category02 |-> 0, title |-> Absent,
              schedule |-> Absent, period |-> Absent]

\* What a fetcher's fetch() does: returns its text, raises FetchError, or
\* raises another exception.
FetchText(lines) == [kind |-> "text", exc |-> "", lines |-> lines]
FetchError == [kind |-> "raise", exc |-> "FetchError", lines |-> <<>>]
FetchRaises(e) == [kind |-> "raise", exc |-> e, lines |-> <<>>]

\* PremiumOutletsFetcher.fetch, the loop over news_items from the i-th on with
\* the event lines so far: the lines, or the exception an item raises.
\* (news.get("title") or "").strip() and the like raise AttributeError on a
\* truthy value that is no string.
RECURSIVE premium_lines(_, _, _)
premium_lines(items, i, acc) ==
    IF i > Len(items) THEN FetchText(acc)
    ELSE LET news == items[i]
             first == IF Truthy(news.schedule) THEN news.schedule
                      ELSE IF Truthy(news.period) THEN news.period ELSE Str(<<>>)
             title == IF Truthy(news.title) THEN Strip(news.title.s) ELSE <<>>
             p == Strip(first.s)
         IN  IF news.t # "dict" THEN premium_lines(items, i + 1, acc)
             ELSE IF news.category01 # CATEGORY01_NEWS THEN premium_lines(items, i + 1, acc)
             ELSE IF news.category02 # CATEGORY02_PREMIUM_OUTLETS_NEWS
             THEN premium_lines(items, i + 1, acc)
             ELSE IF Truthy(news.title) /\ news.title.t # "str" THEN FetchRaises("AttributeError")
             ELSE IF first.t # "str" THEN FetchRaises("AttributeError")
             ELSE IF title = <<>> \/ p = <<>> THEN premium_lines(items, i + 1, acc)
             ELSE premium_lines(items, i + 1, Append(acc, EventLine(title, p)))

\* The HTTP exchange of one GET: the request raises (connection, timeout),
\* raise_for_status raises, or a body arrives. A body: text that is no JSON,
\* or JSON whose top level is an object with a "news" member (absent, null, a
\* number, a string, a list) or is no object.
Body(json, top, newsT, items) == [json |-> json, top |-> top, news |-> [t |-> newsT, items |-> items]]
Http(outcome, body) == [outcome |-> outcome, body |-> body]

\* PremiumOutletsFetcher.fetch
premium_fetch(target, http) ==
    IF ~target.id THEN FetchError
    ELSE IF http.outcome # "ok" THEN FetchError
    ELSE IF ~http.body.json THEN FetchRaises("JSONDecodeError")
    ELSE IF http.body.top # "dict" \/ http.body.news.t = "absent"
    THEN FetchText(<<HeaderLine, NoEventsLine>>)
    ELSE IF http.body.news.t \in {"null", "num"} THEN FetchRaises("TypeError")
    ELSE LET r == premium_lines(IF http.body.news.t = "list" THEN http.body.news.items
                                ELSE <<OtherItem>>, 1, <<HeaderLine>>)
         IN  IF r.kind = "text" /\ Len(r.lines) = 1 THEN FetchText(Append(r.lines, NoEventsLine))
             ELSE r

\* PlaceholderHTMLFetcher.fetch
placeholder_fetch(target, http) == FetchError

\* One card the card selector matched: the text of the node title_selector
\* finds in it (or no node), the card's own text, the text of the node
\* period_selector finds (or no node). Texts are get_text(strip=True).
Card(titleNode, text, periodNode) == [titleNode |-> titleNode, text |-> text, periodNode |-> periodNode]
STATIC_PERIOD == <<"n", "o", "n", "e">>
\* HTMLCSSFetcher.fetch, the loop over cards.
RECURSIVE html_lines(_, _, _, _)
html_lines(target, cards, i, acc) ==
    IF i > Len(cards) THEN acc
    ELSE LET card == cards[i]
             title_text == IF target.title_selector
                           THEN (IF card.titleNode.t = "str" THEN card.titleNode.s ELSE <<>>)
                           ELSE card.text
             period_text == IF target.period_selector /\ card.periodNode.t = "str"
                               /\ card.periodNode.s # <<>>
                            THEN card.periodNode.s ELSE STATIC_PERIOD
         IN  IF title_text = <<>> THEN html_lines(target, cards, i + 1, acc)
             ELSE html_lines(target, cards, i + 1, Append(acc, EventLine(title_text, period_text)))

\* HTMLCSSFetcher._load_markup: TRUE when it returns the markup, FALSE when it
\* raises FetchError (local file missing, neither url nor local_file, the GET
\* or raise_for_status raising).
load_markup_ok(target, http) ==
    IF target.source = "local" THEN TRUE
    ELSE IF target.source = "local_missing" THEN FALSE
    ELSE IF target.source = "none" THEN FALSE
    ELSE http.outcome = "ok"

\* HTMLCSSFetcher.fetch; cards are the elements the page holds for the selector.
html_fetch(target, http, cards) ==
    IF ~load_markup_ok(target, http) THEN FetchError
    ELSE IF ~target.card_selector THEN FetchError
    ELSE LET limited == IF target.limit > 0 /\ target.limit < Len(cards)
                        THEN SubSeq(cards, 1, target.limit) ELSE cards
             lines == html_lines(target, limited, 1, <<HeaderLine>>)
         IN  IF Len(lines) = 1 THEN FetchText(Append(lines, NoEventsLine)) ELSE FetchText(lines)

\* FETCHER_REGISTRY / get_fetcher
FETCHER_REGISTRY == {"premium_outlets", "placeholder_html", "html_css"}
DEFAULT_FETCHER_NAME == "premium_outlets"
fetcher_name(target) == IF target.fetcher = "" THEN DEFAULT_FETCHER_NAME ELSE target.fetcher
\* fetcher_cls(target, session).fetch()
fetch(target, http, cards) ==
    IF fetcher_name(target) = "premium_outlets" THEN premium_fetch(target, http)
    ELSE IF fetcher_name(target) = "placeholder_html" THEN placeholder_fetch(target, http)
    ELSE html_fetch(target, http, cards)

\* ------------------------------------------ data_fetcher.fetch_events_from_api
\* A target of targets.json: fetcher is the value of its "fetcher" key ("" for
\* no such key); id says whether "id" is set; the rest are html_css options.
Target(fetcher, id, source, card, title, p, limit) ==
    [fetcher |-> fetcher, id |-> id, source |-> source, card_selector |-> card,
     title_selector |-> title, period_selector |-> p, limit |-> limit]
PlainTarget(fetcher, id) == Target(fetcher, id, "none", FALSE, FALSE, FALSE, 0)
TargetConfigs ==
    IF prog = "main" THEN {PlainTarget("", TRUE)}
    ELSE {PlainTarget("", TRUE), PlainTarget("premium_outlets", FALSE),
          PlainTarget("no_such_fetcher", TRUE), PlainTarget("placeholder_html", TRUE),
          Target("html_css", FALSE, "local", TRUE, TRUE, TRUE, 1),
          Target("html_css", FALSE, "url", TRUE, FALSE, FALSE, 0),
          Target("html_css", FALSE, "local_missing", TRUE, FALSE, FALSE, 0),
          Target("html_css", FALSE, "local", FALSE, FALSE, FALSE, 0)}
TargetFiles == {NoFile} \cup {File(r) : r \in SeqsUpTo(TargetConfigs, MaxTargets)}

\* Texts of the pages: a title or period with and without surrounding blanks.
TextX == <<"x">>
TextPadded == <<" ", "x", " ">>
Blank == <<" ">>
NewsItems ==
    IF prog = "main" THEN {NewsItem(10, 200, Str(TextX), Str(TextX), Absent)}
    ELSE {NewsItem(10, 200, Str(TextPadded), Str(TextX), Absent),
          NewsItem(10, 200, Str(TextX), Absent, Str(TextPadded)),
          NewsItem(10, 200, Str(TextX), Str(Blank), Str(TextX)),
          NewsItem(10, 200, Null, Str(TextX), Absent),
          NewsItem(10, 200, Num(5), Str(TextX), Absent),
          NewsItem(10, 200, Str(TextX), Null, Num(5)),
          NewsItem(10, 100, Str(TextX), Str(TextX), Absent),
          NewsItem(0, 200, Str(TextX), Str(TextX), Absent),
          OtherItem}
Bodies ==
    {Body(FALSE, "", "absent", <<>>), Body(TRUE, "list", "absent", <<>>),
     Body(TRUE, "dict", "absent", <<>>), Body(TRUE, "dict", "null", <<>>),
     Body(TRUE, "dict", "num", <<>>), Body(TRUE, "dict", "str", <<>>)}
    \cup {Body(TRUE, "dict", "list", items) : items \in SeqsUpTo(NewsItems, MaxNews)}
NoBody == Body(FALSE, "", "absent", <<>>)
Https == {Http("neterr", NoBody), Http("httperr", NoBody)} \cup {Http("ok", b) : b \in Bodies}
Cards ==
    {Card(Str(TextX), TextX, Str(TextX)), Card(Absent, TextX, Absent),
     Card(Str(TextX), TextX, Str(<<>>)), Card(Str(<<>>), <<>>, Absent)}

\* An exception nothing catches leaves the running function; in main.py the
\* interpreter prints the traceback and ends with status 1.
Uncaught(e) ==
    /\ exc' = e
    /\ pc' = IF prog = "main" THEN "traceback" ELSE "raised"
    /\ exit_status' = IF prog = "main" THEN Exited(1) ELSE exit_status

\* _load_targets and the early return on an empty list.
FetchLoadTargets ==
    /\ prog \in {"fetch", "main"}
    /\ pc = "load"
    /\ targets' = targetsFile.data
    /\ IF targetsFile.data = <<>>
       THEN /\ bulletin' = Returned(<<>>)
            /\ event_text' = <<>>
            /\ pc' = IF prog = "main" THEN "export" ELSE "returned"
            /\ UNCHANGED tIdx
       ELSE /\ tIdx' = 1
            /\ pc' = "fetch"
            /\ UNCHANGED <<bulletin, event_text>>
    /\ UNCHANGED <<prog, periodVars, browserVars, targetsFile, all_events_text, salesFile, exc, gets,
                   llmEnv, credRead, remoteCalls, reply, events, exit_status, icalVars>>

\* The text of one section, and "\n".join(all_events_text). Words that hold
\* no whitespace are single tokens.
RECURSIVE RenderLines(_)
RenderLines(lines) ==
    IF lines = <<>> THEN <<>>
    ELSE (IF Head(lines).k = "header" THEN <<"---", "name", "---", "\n">>
          ELSE IF Head(lines).k = "none" THEN <<"none", "\n">>
          ELSE <<"title:">> \o Head(lines).title \o <<",", " ", "period:">>
               \o Head(lines).period \o <<"\n">>)
         \o RenderLines(Tail(lines))
RenderSection(sec) ==
    IF sec.kind = "error" THEN <<"---", "name", "---", "\n", "error", "\n">>
    ELSE RenderLines(sec.lines)
RECURSIVE JoinSections(_)
JoinSections(secs) ==
    IF secs = <<>> THEN <<>>
    ELSE IF Len(secs) = 1 THEN RenderSection(secs[1])
    ELSE RenderSection(secs[1]) \o <<"\n">> \o JoinSections(Tail(secs))

\* except FetchError: whether the loop body catches what fetch() raised.
caught(r) == r.kind = "raise" /\ r.exc = "FetchError"

\* The session.get calls fetch() makes for a target: PremiumOutletsFetcher
\* one once the id is known to be set, HTMLCSSFetcher one when the markup
\* comes from a url, PlaceholderHTMLFetcher none.
fetch_gets(target) ==
    IF fetcher_name(target) = "premium_outlets" THEN (IF target.id THEN 1 ELSE 0)
    ELSE IF fetcher_name(target) = "html_css" THEN (IF target.source = "url" THEN 1 ELSE 0)
    ELSE 0
\* What the requests and the page of the target at hand can give: an API
\* answer for a premium_outlets target, a status for a page fetched from a
\* url, cards for a page that loads.
Fetching == pc = "fetch" /\ tIdx \in DOMAIN targets /\ fetcher_name(targets[tIdx]) \in FETCHER_REGISTRY
HttpsFor ==
    IF Fetching /\ fetch_gets(targets[tIdx]) = 1
    THEN (IF fetcher_name(targets[tIdx]) = "premium_outlets" THEN Https
          ELSE {Http("neterr", NoBody), Http("httperr", NoBody), Http("ok", NoBody)})
    ELSE {Http("neterr", NoBody)}
CardsFor ==
    IF Fetching /\ fetcher_name(targets[tIdx]) = "html_css" THEN SeqsUpTo(Cards, MaxCards)
    ELSE {<<>>}

\* One pass of the loop body for targets[tIdx]: the section it appends, or the
\* exception that leaves the function.
FetchTarget(http, cards) ==
    /\ prog \in {"fetch", "main"}
    /\ pc = "fetch"
    /\ gets' = IF fetcher_name(targets[tIdx]) \in FETCHER_REGISTRY /\ fetch_gets(targets[tIdx]) = 1
               THEN Append(gets, [target |-> tIdx, http |-> http]) ELSE gets
    /\ LET target == targets[tIdx]
           registered == fetcher_name(target) \in FETCHER_REGISTRY
           r == fetch(target, http, cards)
           escapes == registered /\ r.kind = "raise" /\ ~caught(r)
           section == IF ~registered THEN Section(tIdx, "error", <<>>)
                      ELSE IF r.kind = "text" THEN Section(tIdx, "events", r.lines)
                      ELSE Section(tIdx, "error", <<>>)
           all == Append(all_events_text, section)
           last == tIdx = Len(targets)
       IN  IF escapes
           THEN /\ Uncaught(r.exc)
                /\ UNCHANGED <<tIdx, all_events_text, bulletin, event_text>>
           ELSE /\ all_events_text' = all
                /\ tIdx' = tIdx + 1
                /\ bulletin' = IF last THEN Returned(all) ELSE bulletin
                /\ event_text' = IF last THEN JoinSections(all) ELSE event_text
                /\ pc' = IF ~last THEN "fetch" ELSE IF prog = "main" THEN "export" ELSE "returned"
                /\ UNCHANGED <<exc, exit_status>>
    /\ UNCHANGED <<prog, periodVars, browserVars, targetsFile, targets, salesFile,
                   llmEnv, credRead, remoteCalls, reply, events, icalVars>>

InitFetch ==
    /\ prog = "fetch"
    /\ pc = "load"
    /\ period = <<>>
    /\ parsed = None
    /\ targetsFile \in TargetFiles
    /\ targets = <<>>
    /\ tIdx = 0
    /\ all_events_text = <<>>
    /\ bulletin = NotReturned
    /\ gets = <<>>
    /\ IdleBrowser
    /\ IdleMain
    /\ salesFile = NoFile

NextFetch ==
    \/ FetchLoadTargets
    \/ \E http \in HttpsFor, cards \in CardsFor : FetchTarget(http, cards)

SpecFetch == InitFetch /\ [][NextFetch]_vars

\* ------------------------------------------------------------ llm_parser.py
\* str(raw.get(key, "")): the default for a missing key, "None" for null, the
\* decimal digits of a number.
PyStr(v) ==
    IF v.t = "absent" THEN <<>>
    ELSE IF v.t = "null" THEN <<"N", "o", "n", "e">>
    ELSE IF v.t = "num" THEN IntToStr(v.n)
    ELSE v.s

\* One element of the reply's "events": an object with its keys, or another
\* JSON value (t = "other").
ReplyItem(name, s, e) == [t |-> "dict", name |-> name, start_date |-> s, end_date |-> e]
OtherReplyItem == [t |-> "other", name |-> Absent, start_date |-> Absent, end_date |-> Absent]

\* What the remote call gives: kind "raise" (create() raises), "nochoices"
\* (response.choices is empty), or a message content: "none", "empty",
\* "blank", "notjson", or "json" with the parsed value's top level ("dict",
\* "list") and, for an object, its "events" member.
Reply(kind, top, eventsT, items) ==
    [kind |-> kind, top |-> top, events |-> [t |-> eventsT, items |-> items]]

\* A call's outcome: the value returned, or the exception raised.
Ok(v) == [raises |-> "", value |-> v]
Raise(e) == [raises |-> e, value |-> <<>>]

\* _normalise_events, the loop over events.
RECURSIVE normalised(_)
normalised(items) ==
    IF items = <<>> THEN <<>>
    ELSE LET raw == Head(items)
             name == Strip(PyStr(raw.name))
             start_date == Strip(PyStr(raw.start_date))
             end_date == Strip(PyStr(raw.end_date))
         IN  (IF raw.t # "dict" THEN <<>>
              ELSE IF name = <<>> \/ start_date = <<>> \/ end_date = <<>> THEN <<>>
              ELSE <<Row(name, start_date, end_date)>>)
             \o normalised(Tail(items))

\* Mutant of _normalise_events: a reply without events is an error.
normalise_events_empty_is_error(r) ==
    IF r.top # "dict" THEN Raise("AttributeError")
    ELSE IF r.events.t \in {"absent", "null"} THEN Raise("LLMParserError")
    ELSE IF r.events.t # "list" THEN Raise("LLMParserError")
    ELSE IF r.events.items = <<>> THEN Raise("LLMParserError")
    ELSE Ok(normalised(r.events.items))
\* _normalise_events(payload); payload.get is an attribute of a dict only.
normalise_events(r) ==
    IF r.top # "dict" THEN Raise("AttributeError")
    ELSE IF r.events.t \in {"absent", "null"} THEN Ok(<<>>)
    ELSE IF r.events.t # "list" THEN Raise("LLMParserError")
    ELSE Ok(normalised(r.events.items))

\* parse_events_with_llm from the reply on (lines 136-150).
parse_reply(r) ==
    IF r.kind = "nochoices" THEN Raise("LLMParserError")
    ELSE IF r.kind \in {"none", "empty", "blank"} THEN Ok(<<>>)
    ELSE IF r.kind = "notjson" THEN Raise("LLMParserError")
    ELSE normalise_events(r)

\* Mutant of main.py's handler: it reports the LLMParserError and goes on.
main_after_export_goes_on(e) ==
    IF e = "" \/ e = "LLMParserError" THEN "ical" ELSE "traceback"
\* main.py: where the run is after export_events_to_json returned (e = "") or
\* raised e: the emitter's call, sys.exit(1) in the handler, or the traceback.
main_after_export(e) ==
    IF e = "" THEN "ical" ELSE IF e = "LLMParserError" THEN "exited" ELSE "traceback"

\* export_events_to_json is left with exception e.
ExportRaises(e) ==
    /\ exc' = e
    /\ pc' = IF prog = "main" THEN main_after_export(e) ELSE "raised"
    /\ exit_status' = IF prog = "main" THEN Exited(1) ELSE exit_status

\* Mutant of blank_text: no text counts as blank.
blank_text_never(text) == FALSE
\* not event_text.strip()
blank_text(text) == Strip(text) = <<>>

\* if not event_text.strip(): raise
LLMCheckText ==
    /\ prog \in {"llm", "main"}
    /\ pc = "export"
    /\ IF blank_text(event_text)
       THEN ExportRaises("LLMParserError")
       ELSE /\ pc' = "llm_client"
            /\ UNCHANGED <<exc, exit_status>>
    /\ UNCHANGED <<prog, periodVars, fetchVars, browserVars, salesFile, llmVars, icalVars>>

\* _load_client
LLMLoadClient ==
    /\ prog \in {"llm", "main"}
    /\ pc = "llm_client"
    /\ credRead' = llmEnv.openai
    /\ IF ~llmEnv.openai \/ llmEnv.key # "set"
       THEN ExportRaises("LLMParserError")
       ELSE /\ pc' = "llm_call"
            /\ UNCHANGED <<exc, exit_status>>
    /\ UNCHANGED <<prog, periodVars, fetchVars, browserVars, salesFile, event_text, llmEnv,
                   remoteCalls, reply, events, icalVars>>

\* client.chat.completions.create(...) and the rest of parse_events_with_llm.
LLMCall(r) ==
    /\ prog \in {"llm", "main"}
    /\ pc = "llm_call"
    /\ remoteCalls' = remoteCalls + 1
    /\ reply' = r
    /\ LET res == IF r.kind = "raise" THEN Raise("LLMParserError") ELSE parse_reply(r)
       IN  IF res.raises # ""
           THEN /\ ExportRaises(res.raises)
                /\ UNCHANGED events
           ELSE /\ events' = Returned(res.value)
                /\ pc' = "export_write"
                /\ UNCHANGED <<exc, exit_status>>
    /\ UNCHANGED <<prog, periodVars, fetchVars, browserVars, salesFile, event_text, llmEnv,
                   credRead, icalVars>>

\* export_events_to_json after parse_events_with_llm returned: the directory
\* is made when the path names one that does not exist, and the file written.
ExportWrite ==
    /\ prog \in {"llm", "main"}
    /\ pc = "export_write"
    /\ outDir' = IF outDir = "absent" THEN "present" ELSE outDir
    /\ salesFile' = File(events.value)
    /\ pc' = IF prog = "main" THEN main_after_export("") ELSE "returned"
    /\ UNCHANGED <<prog, periodVars, fetchVars, browserVars, exc, llmVars, exit_status,
                   icalCalls, icalFile, emitter>>

\* ---------------------------------------- ical_generator.py, generate_ical.py
\* datetime.date arithmetic, as datetime.py does it with proleptic Gregorian
\* ordinals (0001-01-01 is day 1).
DAYS_IN_MONTH == <<31, 28, 31, 30, 31, 30, 31, 31, 30, 31, 30, 31>>
DAYS_BEFORE_MONTH == <<0, 31, 59, 90, 120, 151, 181, 212, 243, 273, 304, 334>>
is_leap(year) == year % 4 = 0 /\ (year % 100 # 0 \/ year % 400 = 0)
days_before_year(year) ==
    LET y == year - 1 IN y * 365 + (y \div 4) - (y \div 100) + (y \div 400)
days_in_month(year, month) ==
    IF month = 2 /\ is_leap(year) THEN 29 ELSE DAYS_IN_MONTH[month]
days_before_month(year, month) ==
    DAYS_BEFORE_MONTH[month] + (IF month > 2 /\ is_leap(year) THEN 1 ELSE 0)
ymd2ord(d) == days_before_year(d[1]) + days_before_month(d[1], d[2]) + d[3]
DI400Y == days_before_year(401)
DI100Y == days_before_year(101)
DI4Y == days_before_year(5)
ord2ymd(ordinal) ==
    LET n0 == ordinal - 1
        n400 == n0 \div DI400Y
        na == n0 % DI400Y
        n100 == na \div DI100Y
        nb == na % DI100Y
        n4 == nb \div DI4Y
        nc == nb % DI4Y
        n1 == nc \div 365
        n == nc % 365
        year == n400 * 400 + 1 + n100 * 100 + n4 * 4 + n1
        leapyear == n1 = 3 /\ (n4 # 24 \/ n100 = 3)
        month0 == (n + 50) \div 32
        preceding0 == DAYS_BEFORE_MONTH[month0] + (IF month0 > 2 /\ leapyear THEN 1 ELSE 0)
        month == IF preceding0 > n THEN month0 - 1 ELSE month0
        preceding == IF preceding0 > n
                     THEN preceding0 - (DAYS_IN_MONTH[month]
                                        + (IF month = 2 /\ leapyear THEN 1 ELSE 0))
                     ELSE preceding0
    IN  IF n1 = 4 \/ n100 = 4 THEN <<year - 1, 12, 31>>
        ELSE <<year, month, n - preceding + 1>>
\* date.max.toordinal()
MaxOrdinal == ymd2ord(<<9999, 12, 31>>)
\* Mutant of plus_one_day: the date itself.
plus_no_day(d) ==
    IF ymd2ord(d) > MaxOrdinal THEN Raise("OverflowError") ELSE Ok(ord2ymd(ymd2ord(d)))
\* d + timedelta(days=1)
plus_one_day(d) ==
    IF ymd2ord(d) + 1 > MaxOrdinal THEN Raise("OverflowError") ELSE Ok(ord2ymd(ymd2ord(d) + 1))

\* datetime.strptime(text, '%Y-%m-%d').date(). The format's regular
\* expression is (\d\d\d\d)-(1[0-2]|0[1-9]|[1-9])-(3[01]|[12]\d|0[1-9]|[1-9]| [1-9])
\* matched at the start of the text; text left over, or a day the month does
\* not have, is a ValueError.
At(s, i) == IF i <= Len(s) THEN s[i] ELSE ""
NonZeroDigits == DigitChars \ {"0"}
MonthLen(s) ==
    IF At(s, 6) = "1" /\ At(s, 7) \in {"0", "1", "2"} /\ At(s, 8) = "-" THEN 2
    ELSE IF At(s, 6) = "0" /\ At(s, 7) \in NonZeroDigits /\ At(s, 8) = "-" THEN 2
    ELSE IF At(s, 6) \in NonZeroDigits /\ At(s, 7) = "-" THEN 1
    ELSE 0
DayLen(s, i) ==
    IF At(s, i) = "3" /\ At(s, i + 1) \in {"0", "1"} THEN 2
    ELSE IF At(s, i) \in {"1", "2"} /\ At(s, i + 1) \in DigitChars THEN 2
    ELSE IF At(s, i) = "0" /\ At(s, i + 1) \in NonZeroDigits THEN 2
    ELSE IF At(s, i) \in NonZeroDigits THEN 1
    ELSE IF At(s, i) = " " /\ At(s, i + 1) \in NonZeroDigits THEN 2
    ELSE 0
strptime_date(s) ==
    IF ~(Len(s) >= 5 /\ (\A i \in 1..4 : s[i] \in DigitChars) /\ s[5] = "-")
    THEN Raise("ValueError")
    ELSE IF MonthLen(s) = 0 THEN Raise("ValueError")
    ELSE LET di == 6 + MonthLen(s) + 1
             dl == DayLen(s, di)
             year == ToInt(SubSeq(s, 1, 4))
             month == ToInt(SubSeq(s, 6, 5 + MonthLen(s)))
             day == ToInt(LStrip(SubSeq(s, di, di + dl - 1)))
         IN  IF dl = 0 \/ di + dl - 1 # Len(s) THEN Raise("ValueError")
             ELSE IF year < 1 \/ day > days_in_month(year, month) THEN Raise("ValueError")
             ELSE Ok(<<year, month, day>>)

\* The DATE value to_ical writes for a date: YYYYMMDD.
ical_date(d) == Fmt(d[1], 4) \o Fmt(d[2], 2) \o Fmt(d[3], 2)
VEvent(summary, dtstart, dtend, uid) ==
    [summary |-> summary, dtstart |-> dtstart, dtend |-> dtend, uid |-> uid]
CalHeaders == <<"PRODID", "VERSION", "X-WR-CALNAME", "X-WR-TIMEZONE">>

\* create_ical_from_json, the loop over sales_data from the i-th row on: the
\* events added, or the exception a row raises.
RECURSIVE ical_events(_, _, _)
ical_events(sales_data, i, acc) ==
    IF i > Len(sales_data) THEN Ok(acc)
    ELSE LET sale == sales_data[i]
             start_date == strptime_date(sale.start_date)
             end_parsed == strptime_date(sale.end_date)
             end_date == plus_one_day(end_parsed.value)
             uid == sale.start_date \o <<"-">> \o sale.name \o <<"@premiumoutlets.example.com">>
         IN  IF start_date.raises # "" THEN Raise(start_date.raises)
             ELSE IF end_parsed.raises # "" THEN Raise(end_parsed.raises)
             ELSE IF end_date.raises # "" THEN Raise(end_date.raises)
             ELSE ical_events(sales_data, i + 1,
                              Append(acc, VEvent(sale.name, ical_date(start_date.value),
                                                 ical_date(end_date.value), uid)))

\* create_ical_from_json(json_path, ical_path) of ical_generator.py,
\* generate_ical.py or another_suggestion.py, with the JSON file, and the directory part of ical_path:
\* the calendar file it writes (NoIcal when it returns without writing), or
\* the exception it raises.
create_ical_from_json(file, dir, which) ==
    LET evs == ical_events(file.data, 1, <<>>)
    IN  IF ~file.exists
        THEN (IF which # "generate_ical" THEN Ok(NoIcal) ELSE Raise("FileNotFoundError"))
        ELSE IF evs.raises # "" THEN Raise(evs.raises)
        ELSE IF dir = "none" THEN Raise("FileNotFoundError")
        ELSE Ok(File(Calendar(CalHeaders, evs.value)))

IcalEmit ==
    /\ prog \in {"ical", "main"}
    /\ pc = "ical"
    /\ icalCalls' = icalCalls + 1
    /\ LET res == create_ical_from_json(salesFile, outDir, emitter)
       IN  IF res.raises # ""
           THEN /\ Uncaught(res.raises)
                /\ UNCHANGED <<icalFile, outDir>>
           ELSE /\ icalFile' = IF res.value.exists THEN res.value ELSE icalFile
                /\ outDir' = IF res.value.exists THEN "present" ELSE outDir
                /\ exc' = exc
                /\ pc' = IF prog = "main" THEN "done" ELSE "returned"
                /\ exit_status' = IF prog = "main" THEN Exited(0) ELSE exit_status
    /\ UNCHANGED <<prog, periodVars, fetchVars, browserVars, salesFile, llmVars, emitter>>

\* ------------------------------------------------------- inputs and programs
NameA == <<"A">>
NameB == <<" ", "B", " ">>
Day1 == IsoText(<<2025, 9, 1>>, "-", 2)
Day15 == IsoText(<<2025, 9, 15>>, "-", 2)
NoSuchDay == IsoText(<<2025, 2, 30>>, "-", 2)
ReplyItems ==
    IF prog = "main"
    THEN {ReplyItem(Str(NameA), Str(Day1), Str(Day15)), ReplyItem(Str(NameA), Str(Day1), Str(NoSuchDay))}
    ELSE {ReplyItem(Str(NameA), Str(Day1), Str(Day15)),
          ReplyItem(Str(NameB), Str(Day1), Str(Day1)),
          ReplyItem(Null, Str(Day1), Str(Day15)),
          ReplyItem(Absent, Str(Day1), Str(Day15)),
          ReplyItem(Str(Blank), Str(Day1), Str(Day15)),
          ReplyItem(Str(NameA), Str(<<>>), Str(Day15)),
          ReplyItem(Str(NameA), Str(Day1), Null),
          ReplyItem(Str(NameA), Str(Day1), Num(5)),
          OtherReplyItem}
Replies ==
    {Reply("raise", "", "absent", <<>>), Reply("empty", "", "absent", <<>>),
     Reply("json", "list", "absent", <<>>)}
    \cup {Reply("json", "dict", "list", items) : items \in SeqsUpTo(ReplyItems, MaxEvents)}
    \cup (IF prog = "main" THEN {}
          ELSE {Reply("nochoices", "", "absent", <<>>), Reply("none", "", "absent", <<>>),
                Reply("blank", "", "absent", <<>>), Reply("notjson", "", "absent", <<>>),
                Reply("json", "dict", "absent", <<>>), Reply("json", "dict", "null", <<>>),
                Reply("json", "dict", "str", <<>>), Reply("json", "dict", "num", <<>>)})
LLMEnvs ==
    {[openai |-> TRUE, key |-> "set"], [openai |-> TRUE, key |-> "unset"],
     [openai |-> TRUE, key |-> "empty"], [openai |-> FALSE, key |-> "set"]}
LLMTexts == {<<>>, <<" ">>, <<"\n", " ">>, <<"x">>, <<" ", "x", "\n">>}

InitLLM ==
    /\ prog = "llm"
    /\ pc = "export"
    /\ period = <<>>
    /\ parsed = None
    /\ IdleFetch
    /\ IdleBrowser
    /\ salesFile = NoFile
    /\ exc = ""
    /\ exit_status = Running
    /\ event_text \in LLMTexts
    /\ llmEnv \in LLMEnvs
    /\ credRead = FALSE
    /\ remoteCalls = 0
    /\ reply = NoReply
    /\ events = NotReturned
    /\ icalCalls = 0
    /\ icalFile = NoIcal
    /\ outDir \in {"none", "absent", "present"}
    /\ emitter = "ical_generator"

NextLLM ==
    \/ LLMCheckText
    \/ LLMLoadClient
    \/ \E r \in Replies : LLMCall(r)
    \/ ExportWrite

SpecLLM == InitLLM /\ [][NextLLM]_vars

\* Dates of the rows handed to the emitter, and texts that are no date.
IcalDays ==
    {<<2025, 9, 1>>, <<2025, 9, 30>>, <<2025, 12, 31>>, <<2024, 2, 28>>, <<2024, 2, 29>>,
     <<2025, 2, 28>>, <<2100, 2, 28>>, <<2000, 2, 28>>}
IcalStartTexts == {Day1, IsoText(<<2025, 9, 1>>, "-", 1), IsoText(<<2025, 9, 1>>, "/", 2)}
IcalEndTexts ==
    {IsoText(d, "-", 2) : d \in IcalDays}
    \cup {IsoText(<<2025, 9, 1>>, "-", 1), NoSuchDay, IsoText(<<9999, 12, 31>>, "-", 2),
          IsoText(<<2025, 13, 1>>, "-", 2), IsoText(<<0, 1, 1>>, "-", 2),
          Day1 \o <<"1">>, <<"N", "o", "n", "e">>}
IcalRows == {Row(NameA, s, e) : s \in IcalStartTexts, e \in IcalEndTexts}
SalesFiles == {NoFile} \cup {File(rows) : rows \in SeqsUpTo(IcalRows, MaxEvents)}

InitIcal ==
    /\ prog = "ical"
    /\ pc = "ical"
    /\ period = <<>>
    /\ parsed = None
    /\ IdleFetch
    /\ IdleBrowser
    /\ salesFile \in SalesFiles
    /\ exc = ""
    /\ exit_status = Running
    /\ IdleLLM
    /\ icalCalls = 0
    /\ icalFile = NoIcal
    /\ outDir \in {"none", "absent", "present"}
    /\ emitter \in {"ical_generator", "generate_ical", "another_suggestion"}

NextIcal == IcalEmit

SpecIcal == InitIcal /\ [][NextIcal]_vars

\* main.py
Init ==
    /\ prog = "main"
    /\ pc = "load"
    /\ period = <<>>
    /\ parsed = None
    /\ targetsFile \in TargetFiles
    /\ targets = <<>>
    /\ tIdx = 0
    /\ all_events_text = <<>>
    /\ bulletin = NotReturned
    /\ gets = <<>>
    /\ IdleBrowser
    /\ salesFile = NoFile
    /\ exc = ""
    /\ exit_status = Running
    /\ event_text = <<>>
    /\ llmEnv \in LLMEnvs
    /\ credRead = FALSE
    /\ remoteCalls = 0
    /\ reply = NoReply
    /\ events = NotReturned
    /\ icalCalls = 0
    /\ icalFile = NoIcal
    /\ outDir \in {"absent", "present"}
    /\ emitter = "ical_generator"

Next ==
    \/ FetchLoadTargets
    \/ \E http \in HttpsFor, cards \in CardsFor : FetchTarget(http, cards)
    \/ LLMCheckText
    \/ LLMLoadClient
    \/ \E r \in Replies : LLMCall(r)
    \/ ExportWrite
    \/ IcalEmit

Spec == Init /\ [][Next]_vars

\* ---------------------------------------------------------------- SpecPeriod
\* _parse_period_to_dates applied to one period text.
InitPeriod ==
    /\ prog = "period"
    /\ pc = "call"
    /\ period \in PeriodTexts
    /\ parsed = None
    /\ IdleFetch
    /\ IdleBrowser
    /\ IdleMain
    /\ salesFile = NoFile

ParsePeriod ==
    /\ prog = "period"
    /\ pc = "call"
    /\ parsed' = parse_period_to_dates(period)
    /\ pc' = "returned"
    /\ UNCHANGED <<prog, period, fetchVars, browserVars, salesFile, mainVars>>

NextPeriod == ParsePeriod
SpecPeriod == InitPeriod /\ [][NextPeriod]_vars

\* ------------------------------------------------------------------ claims
Range(f) == {f[i] : i \in DOMAIN f}
\* The sections target t has in all_events_text.
SectionsOf(t, kind) ==
    {i \in DOMAIN all_events_text :
        all_events_text[i].target = t /\ all_events_text[i].kind = kind}
\* The places (section, line) of target t's event lines for one (title, period).
LinePlaces(t, title, p) ==
    {<<i, j>> \in UNION {{i} \X DOMAIN all_events_text[i].lines : i \in SectionsOf(t, "events")} :
        all_events_text[i].lines[j] = EventLine(title, p)}
RowPlaces(t, title, p) ==
    {i \in DOMAIN row_src : row_src[i] = [target |-> t, title |-> title, period |-> p]}
LoopOver == pc \in {"closing", "write", "returned", "raised"} /\ targetsFile.exists

\* C2: in the browser-rendered strategy a target is attempted at most twice,
\* the second attempt is made only after the first raised, the target's error
\* section is in the bulletin exactly when both attempts raised, and the loop
\* always goes on: a target whose attempts ended is behind the loop, and the
\* loop ends only behind the last target.
C2_BoundedRetry ==
    prog = "browser" =>
        /\ \A t \in DOMAIN tried :
              /\ Len(tried[t]) <= 2
              /\ Len(tried[t]) = 2 => tried[t][1]
              /\ Cardinality(SectionsOf(t, "error")) = (IF tried[t] = <<TRUE, TRUE>> THEN 1 ELSE 0)
              /\ (t < tIdx) <=> (Len(tried[t]) = 2 \/ (tried[t] # <<>> /\ ~tried[t][Len(tried[t])]))
              /\ (t > tIdx) => tried[t] = <<>>
        /\ LoopOver => tIdx = Len(targets) + 1
        /\ pc = "attempt" => tIdx \in DOMAIN targets /\ Len(tried[tIdx]) = attempt
C2_Witness ==
    /\ prog = "browser"
    /\ Len(targets) >= 2
    /\ tried[1] = <<TRUE, TRUE>>
    /\ SectionsOf(1, "error") # {}
    /\ tried[2] = <<TRUE, FALSE>>
    /\ SectionsOf(2, "error") = {}

\* C3: every row of the sales list has start_date <= end_date, whatever the
\* order of the two dates in the period text.
C3_StartNotAfterEnd ==
    prog = "browser" =>
        \A i \in DOMAIN sales_rows : StrLeq(sales_rows[i].start_date, sales_rows[i].end_date)

\* C4: a kept candidate whose period matches none of the four date patterns
\* gets no dates from _parse_period_to_dates and no row, and its line is in the
\* section appended for its target; sections stay in all_events_text, which is
\* what the function returns.
NoPattern(p) ==
    /\ Search(IsoRangeRe, p) = NoMatch
    /\ Search(JpRangeRe, p) = NoMatch
    /\ Search(IsoDateRe, p) = NoMatch
    /\ Search(JpDateRe, p) = NoMatch
Unparseable == {p \in CandPeriods : NoPattern(p)}
KeptUnparseable(cs) == {c \in Range(cs) : c.title # "" /\ c.period # <<>> /\ c.period \in Unparseable}
C4_SectionAppended ==
    /\ Len(all_events_text') > Len(all_events_text)
    /\ all_events_text'[Len(all_events_text) + 1].kind = "events"
C4_Step ==
    /\ SubSeq(all_events_text', 1, Len(all_events_text)) = all_events_text
    /\ C4_SectionAppended =>
          LET sec == all_events_text'[Len(all_events_text) + 1]
          IN  \A c \in KeptUnparseable(collected') :
                 /\ ParsedPeriod[c.period] = None
                 /\ EventLine(c.title, c.period) \in Range(sec.lines)
                 /\ \A i \in DOMAIN row_src' :
                       ~(row_src'[i].target = sec.target /\ row_src'[i].title = c.title
                         /\ row_src'[i].period = c.period)
C4_UnparseableKeptInBulletin ==
    /\ [](prog = "browser" /\ bulletin.returned /\ targetsFile.exists
            => bulletin.value = all_events_text)
    /\ [][prog = "browser" => C4_Step]_vars
C4_Witness ==
    /\ prog = "browser"
    /\ bulletin.returned
    /\ LinePlaces(1, "Fair", JunkPeriod) # {}
    /\ RowPlaces(1, "Fair", JunkPeriod) = {}
    /\ Cand("Fair", JunkPeriod) \in Range(collected)

\* C5: after a target has been processed, its bulletin lines and the sales
\* rows derived from it hold each (title, period) pair at most once, and no
\* pair with an empty title or an empty period.
C5_PairsAtMostOnce ==
    prog = "browser" =>
        \A t \in DOMAIN targets : t < tIdx =>
            \A c \in JsonCands \cup DomCands :
                /\ Cardinality(LinePlaces(t, c.title, c.period)) <= 1
                /\ Cardinality(RowPlaces(t, c.title, c.period)) <= 1
                /\ (c.title = "" \/ c.period = <<>>) => LinePlaces(t, c.title, c.period) = {}

\* C1: in data_fetcher.fetch_events_from_api no failure of one target's fetch
\* leaves the loop: no exception escapes the function, and the bulletin it
\* returns holds a section for every target of the registry.
C1_NoFailureEscapes ==
    prog = "fetch" =>
        /\ exc = ""
        /\ pc # "raised"
        /\ bulletin.returned => Len(bulletin.value) = Len(targets)

\* The calendar's day after d, and what a sales row's date text stands for.
LeapYear(y) == (y % 4 = 0 /\ y % 100 # 0) \/ y % 400 = 0
LastDay(y, m) == IF m \in {4, 6, 9, 11} THEN 30 ELSE IF m # 2 THEN 31 ELSE IF LeapYear(y) THEN 29 ELSE 28
NextDay(d) ==
    IF d[3] < LastDay(d[1], d[2]) THEN <<d[1], d[2], d[3] + 1>>
    ELSE IF d[2] < 12 THEN <<d[1], d[2] + 1, 1>>
    ELSE <<d[1] + 1, 1, 1>>
Compact(d) == Fmt(d[1], 4) \o Fmt(d[2], 2) \o Fmt(d[3], 2)
Stands(text, d) == text \in {IsoText(d, "-", 1), IsoText(d, "-", 2)}
IsDay(text) == \E d \in IcalDays : Stands(text, d)
\* C6: a calendar file create_ical_from_json wrote holds the fixed headers and
\* one all-day event per record of the sales list, in order, with summary =
\* name, DTSTART = start_date and DTEND the day after end_date; and it writes
\* the file for every list of records with such dates (the empty list too).
C6_OneAllDayEventPerRecord ==
    prog = "ical" =>
        /\ icalFile.exists =>
            /\ salesFile.exists
            /\ icalFile.data.headers = CalHeaders
            /\ Len(icalFile.data.events) = Len(salesFile.data)
            /\ \A i \in DOMAIN salesFile.data :
                LET sale == salesFile.data[i]
                    ev == icalFile.data.events[i]
                IN  /\ ev.summary = sale.name
                    /\ \E d \in IcalDays : Stands(sale.start_date, d) /\ ev.dtstart = Compact(d)
                    /\ \E d \in IcalDays : Stands(sale.end_date, d) /\ ev.dtend = Compact(NextDay(d))
        /\ ( /\ icalCalls = 1
             /\ salesFile.exists
             /\ outDir # "none"
             /\ \A i \in DOMAIN salesFile.data :
                    IsDay(salesFile.data[i].start_date) /\ IsDay(salesFile.data[i].end_date) )
           => icalFile.exists /\ exc = ""
\* C6 happens: a file with two events, one whose end date is a year's last day.
C6_Witness ==
    /\ prog = "ical"
    /\ icalFile.exists
    /\ Len(icalFile.data.events) = MaxEvents
    /\ icalFile.data.events[1].dtend = Compact(<<2026, 1, 1>>)
    /\ icalFile.data.events[2].dtend = Compact(<<2024, 3, 1>>)

\* C7: parse_events_with_llm fails with LLMParserError and nothing else when
\* the text is blank (before the credential is read and before any remote
\* call), when no client can be made, when the remote call raises, when the
\* reply is no JSON, and when the reply's top level or its events member is
\* malformed.
C7_FailsWithLLMParserErrorOnly ==
    prog = "llm" =>
        /\ (Strip(event_text) = <<>> /\ pc # "export")
           => exc = "LLMParserError" /\ ~credRead /\ remoteCalls = 0
        /\ (Strip(event_text) # <<>> /\ (~llmEnv.openai \/ llmEnv.key # "set")
            /\ pc \notin {"export", "llm_client"})
           => exc = "LLMParserError" /\ remoteCalls = 0
        /\ reply.kind \in {"raise", "notjson"} => exc = "LLMParserError"
        /\ (reply.kind = "json" /\ (reply.top # "dict" \/ reply.events.t \in {"str", "num"}))
           => exc = "LLMParserError"

\* A reply that reports no events: no content, or an object whose events
\* member is absent or the empty list.
EmptyReply(r) ==
    \/ r.kind \in {"none", "empty", "blank"}
    \/ r.kind = "json" /\ r.top = "dict"
       /\ (r.events.t = "absent" \/ (r.events.t = "list" /\ r.events.items = <<>>))
\* C8: a reply whose events list is empty, an empty reply, and a reply without
\* the events key give zero normalized events and no error, and
\* export_events_to_json then writes the empty array to the sales file.
C8_EmptyReplyIsNoError ==
    (prog = "llm" /\ EmptyReply(reply)) =>
        /\ exc = ""
        /\ events = Returned(<<>>)
        /\ pc \in {"export_write", "returned"}
        /\ pc = "returned" => salesFile = File(<<>>)
\* C8 happens: the reply {"events": []} was received and the file written.
C8_Witness ==
    /\ prog = "llm"
    /\ reply = Reply("json", "dict", "list", <<>>)
    /\ pc = "returned"
    /\ salesFile = File(<<>>)

\* A member of a reply item that is present and not blank after trimming.
Complete(v) == (v.t = "str" /\ Strip(v.s) # <<>>) \/ v.t = "num"
CompleteItem(it) ==
    it.t = "dict" /\ Complete(it.name) /\ Complete(it.start_date) /\ Complete(it.end_date)
KeptOf(items) ==
    LET kept == SelectSeq(items, CompleteItem)
    IN  [i \in DOMAIN kept |->
            Row(Strip(PyStr(kept[i].name)), Strip(PyStr(kept[i].start_date)),
                Strip(PyStr(kept[i].end_date)))]
\* C9: _normalise_events keeps exactly the items that are objects whose name,
\* start_date and end_date are present and non-blank (a missing, null or blank
\* one drops the item), in reply order, and a dropped item raises nothing.
C9_KeptIffComplete ==
    (prog = "llm" /\ reply.kind = "json" /\ reply.top = "dict" /\ reply.events.t = "list") =>
        /\ exc = ""
        /\ events = Returned(KeptOf(reply.events.items))

\* C10: in main.py the LLM step starts only after the fetch returned and the
\* emitter only after the normalization returned and its file was written;
\* when the normalization fails the run ends with a non-zero status, the
\* emitter is never called and no calendar file is written.
NormalizationFailed == bulletin.returned /\ ~events.returned /\ exc # ""
C10_OrderAndStop ==
    prog = "main" =>
        /\ (pc \notin {"load", "fetch"} /\ exc = "") => bulletin.returned
        /\ (credRead \/ remoteCalls > 0 \/ events.returned) => bulletin.returned
        /\ remoteCalls <= 1
        /\ icalCalls <= 1
        /\ icalCalls > 0 => events.returned /\ salesFile = File(events.value)
        /\ icalFile.exists => icalCalls > 0
        /\ NormalizationFailed =>
            /\ exit_status.exited
            /\ exit_status.code # 0
            /\ icalCalls = 0
            /\ ~icalFile.exists
            /\ pc \in {"exited", "traceback"}
\* C10 happens: the remote call was made and the normalization failed.
C10_Witness ==
    /\ prog = "main"
    /\ NormalizationFailed
    /\ remoteCalls = 1
    /\ exc = "LLMParserError"
    /\ exit_status = Exited(1)

\* C11: in the browser-rendered strategy one browser and one context are
\* opened per run, both are closed once the loop over the targets is over,
\* and no page of an earlier attempt is open when an attempt starts or when
\* the loop is over.
C11_SharedAndClosed ==
    prog = "session" =>
        /\ playwright.launched <= 1
        /\ playwright.contexts <= 1
        /\ (targetsFile.exists /\ pc # "load")
           => playwright.launched = 1 /\ playwright.contexts = 1
        /\ (targetsFile.exists /\ pc \in {"write", "returned"})
           => ~playwright.browser_open /\ ~playwright.context_open
        /\ pc \in {"attempt", "closing", "write", "returned"} => playwright.open_pages = 0

\* A date as the sales rows hold it, and the ways the pages write one date.
Padded(d) == IsoText(d, "-", 2)
IsoWritings(d) == {IsoText(d, sep, pad) : sep \in DateSep, pad \in {1, 2}}
OneDateTexts(d) ==
    DateTexts(d) \cup {<<"kanji">> \o t \o <<"fwtilde", "9", "/", "1", "5">> : t \in DateTexts(d)}
SameDialectRanges(a, b) ==
    {x \o g \o y : x \in IsoWritings(a), g \in Glues \ {<<"kanji">>}, y \in IsoWritings(b)}
    \cup {JpText(a) \o g \o JpText(b) : g \in Glues}
\* C12: for a period text that holds exactly one date, in either dialect,
\* _parse_period_to_dates returns start = end = that date zero-padded as
\* YYYY-MM-DD; for a text that holds a range of two dates of one dialect it
\* returns the two dates, the range patterns being tried first.
C12_SingleDate ==
    (prog = "period" /\ pc = "returned") =>
        /\ \A d \in SampleDates :
              period \in OneDateTexts(d) => parsed = Dates(Padded(d), Padded(d))
        /\ \A a \in SampleDates, b \in SampleDates :
              period \in SameDialectRanges(a, b) => parsed = Dates(Padded(a), Padded(b))
\* C12 happens: the period "2025(nen)9(gatsu)1(nichi)" was parsed.
C12_Witness ==
    /\ prog = "period"
    /\ pc = "returned"
    /\ period = JpText(<<2025, 9, 1>>)
    /\ parsed = Dates(Padded(<<2025, 9, 1>>), Padded(<<2025, 9, 1>>))

\* C13: given a sales file whose rows hold dates, create_ical_from_json makes
\* the output directory when it does not exist and writes the calendar file,
\* whatever the output path, a path without directory part included.
C13_DirectoryMadeThenWritten ==
    ( /\ prog = "ical"
      /\ icalCalls = 1
      /\ salesFile.exists
      /\ \A i \in DOMAIN salesFile.data :
             IsDay(salesFile.data[i].start_date) /\ IsDay(salesFile.data[i].end_date) )
    => /\ exc = ""
       /\ icalFile.exists
       /\ outDir # "absent"

\* A news item that is to give a line: an object of the two category codes
\* whose title, and whose schedule (or, without one, period), is a text that
\* is not blank; and the line it is to give.
NonBlank(v) == v.t = "str" /\ Strip(v.s) # <<>>
WhenOf(it) == IF it.schedule.t \in {"absent", "null"} \/ it.schedule = Str(<<>>) THEN it.period ELSE it.schedule
Wanted(it) ==
    /\ it.t = "dict"
    /\ it.category01 = 10
    /\ it.category02 = 200
    /\ NonBlank(it.title)
    /\ NonBlank(WhenOf(it))
WantedLines(items) ==
    LET kept == SelectSeq(items, Wanted)
    IN  IF kept = <<>> THEN <<NoEventsLine>>
        ELSE [i \in DOMAIN kept |-> EventLine(Strip(kept[i].title.s), Strip(WhenOf(kept[i]).s))]
PremiumWithId(t) == fetcher_name(targets[t]) = "premium_outlets" /\ targets[t].id
\* C14: PremiumOutletsFetcher.fetch makes exactly one GET for its target, and
\* from a response whose news is a list it gives the header, then one line per
\* wanted item in response order (the no-events line when there is none),
\* every other item being passed over without an exception.
C14_OneGetAndWantedLines ==
    prog = "fetch" =>
        /\ \A t \in DOMAIN targets :
              (PremiumWithId(t) /\ (t < tIdx \/ (pc = "raised" /\ t = tIdx)))
              => Cardinality({k \in DOMAIN gets : gets[k].target = t}) = 1
        /\ \A k \in DOMAIN gets :
              LET t == gets[k].target
                  body == gets[k].http.body
              IN  ( /\ PremiumWithId(t)
                    /\ gets[k].http.outcome = "ok"
                    /\ body.json
                    /\ body.top = "dict"
                    /\ body.news.t = "list" )
                  => /\ ~(pc = "raised" /\ t = tIdx)
                     /\ all_events_text[t] =
                            Section(t, "events", <<HeaderLine>> \o WantedLines(body.news.items))

\* C15: the bulletin fetch_events_from_api returns holds exactly one section
\* per target of the registry, in registry order (the target's event section
\* or its error section), and in the browser-rendered strategy no candidate
\* of a target gives its sales row twice, whatever the attempts did.
C15_OneSectionPerTarget ==
    (prog \in {"browser", "fetch"} /\ bulletin.returned /\ targetsFile.exists) =>
        /\ Len(bulletin.value) = Len(targets)
        /\ \A i \in DOMAIN bulletin.value :
              bulletin.value[i].target = i /\ bulletin.value[i].kind \in {"events", "error"}
        /\ \A i \in DOMAIN row_src, j \in DOMAIN row_src : row_src[i] = row_src[j] => i = j

\* C16: when the registry file is missing or holds an empty list, main.py's
\* fetch returns the empty bulletin without a GET, the LLM step fails on the
\* empty text before it reads the credential or calls the remote endpoint,
\* and the run ends with a non-zero status, no sales file and no calendar
\* file written.
C16_EmptyRegistryStopsRun ==
    (prog = "main" /\ (~targetsFile.exists \/ targetsFile.data = <<>>) /\ pc # "load") =>
        /\ bulletin = Returned(<<>>)
        /\ event_text = <<>>
        /\ gets = <<>>
        /\ ~credRead
        /\ remoteCalls = 0
        /\ icalCalls = 0
        /\ ~salesFile.exists
        /\ ~icalFile.exists
        /\ pc \in {"export", "exited"}
        /\ pc = "exited" => exc = "LLMParserError" /\ exit_status.exited /\ exit_status.code # 0
\* C16 happens: the run with a missing registry file has ended.
C16_Witness ==
    /\ prog = "main"
    /\ ~targetsFile.exists
    /\ pc = "exited"
    /\ exit_status = Exited(1)

\* C17: the start and the end _parse_period_to_dates returns are dates of the
\* calendar written YYYY-MM-DD, which create_ical_from_json's strptime takes
\* without raising when it reads them back from the sales file.
C17_ReturnedDatesAreValid ==
    (prog = "period" /\ pc = "returned" /\ parsed.ok) =>
        /\ Len(parsed.s) = 10
        /\ Len(parsed.e) = 10
        /\ strptime_date(parsed.s).raises = ""
        /\ strptime_date(parsed.e).raises = ""

====
